---- MODULE Spec2Model ----
(***************************************************************************)
(* Model of the quantly backtest engine: src/app/backtest_engine.py        *)
(* (run_backtest, _calculate_required_indicators,                          *)
(* _create_strategy_function), src/strategy/main.py (tick, buy, sell and   *)
(* the module-level position_open / positions / buy_strategies /           *)
(* sell_strategies) and src/data_proc/calc_indicators_full.py.             *)
(*                                                                         *)
(* Floats are modelled as exact rationals <<n, d>> (d > 0, lowest terms);  *)
(* NaN and Python's None are the empty tuple.  A price table is the flat   *)
(* prefix of BasePrice closes followed by a freely chosen tail, so that    *)
(* the RSI recursion stays within machine integers.                        *)
(***************************************************************************)
EXTENDS Integers, Sequences, FiniteSets, TLC

\* ------------------------------------------------------------------ bounds
NRows     == 51      \* rows of the price table (data.csv)
Active    == 3       \* trailing rows whose close is chosen freely
MaxPrice  == 2       \* closes range over 1..MaxPrice
BasePrice == 2       \* close of every row of the flat prefix
MaxFreq   == 2       \* resample bucket widths 1..MaxFreq (in bar units)
MaxFirst  == 1       \* timestamp of the first bar ranges over 0..MaxFirst

\* ------------------------------------------------------- program constants
MinRows          == 50    \* backtest_engine.py:460
RsiDefaultPeriod == 14    \* backtest_engine.py:96
OversoldDefault  == 20    \* backtest_engine.py:189
OverboughtDefault == 80   \* backtest_engine.py:199
SmaDefaultPeriod == 20    \* backtest_engine.py:103, 233
MacdFastDefault   == 12   \* backtest_engine.py:98, 207
MacdSlowDefault   == 26   \* backtest_engine.py:99, 208
MacdSignalDefault == 9    \* backtest_engine.py:100, 209
BbDefaultPeriod   == 20   \* backtest_engine.py:108
BbDefaultStd      == <<2, 1>>   \* backtest_engine.py:108 (2.0)
AdxDefaultPeriod  == 14   \* backtest_engine.py:115
AdxThreshDefault  == 25   \* backtest_engine.py:361

Runs == {1, 2}            \* invocations of run_backtest in one process

None == << >>
NaN  == << >>
NaT  == << >>
Some(x) == <<x>>

\* ------------------------------------------------------- exact arithmetic
Abs(x) == IF x < 0 THEN -x ELSE x

RECURSIVE GCD(_, _)
GCD(a, b) == IF b = 0 THEN a ELSE GCD(b, a % b)

Rat(n, d) ==
    LET g == GCD(Abs(n), Abs(d))
        s == IF d < 0 THEN -1 ELSE 1
    IN  <<(s * n) \div g, (s * d) \div g>>

Int2Rat(k)  == <<k, 1>>
RAdd(x, y)  == Rat(x[1] * y[2] + y[1] * x[2], x[2] * y[2])
RSub(x, y)  == Rat(x[1] * y[2] - y[1] * x[2], x[2] * y[2])
RMul(x, y)  == Rat(x[1] * y[1], x[2] * y[2])
RDiv(x, y)  == Rat(x[1] * y[2], x[2] * y[1])
RLe(x, y)   == x[1] * y[2] <= y[1] * x[2]
RLt(x, y)   == x[1] * y[2] <  y[1] * x[2]

\* float comparisons: any comparison with NaN is False
FLt(x, y) == x # NaN /\ y # NaN /\ RLt(x, y)
FGt(x, y) == x # NaN /\ y # NaN /\ RLt(y, x)

\* Python truthiness of an optional number: None and 0 are falsy
Truthy(o) == o # None /\ o[1] # 0
\* Python's `o or dflt`
Or(o, dflt) == IF Truthy(o) THEN o[1] ELSE dflt

\* ------------------------------------------------------------------ state
VARIABLES
    \* inputs, fixed along a behaviour
    close_tail,         \* closes of the last Active rows of data.csv
    first_stamp,        \* timestamp of the first row
    freq,               \* run_backtest(freq=...)
    start_date,         \* run_backtest(start_date=...)
    end_date,           \* run_backtest(end_date=...)
    \* module-level state of strategy/main.py
    position_open,
    positions,
    buy_strategies,
    sell_strategies,
    \* one activation record of run_backtest per invocation
    pc,
    args,               \* starting_value, buy_strats, sell_strats
    df,
    calc_log,           \* the calculations the resolver performed (its log)
    portfolio_value,
    committed_capital,
    entry_price,
    trades,
    ticks,              \* the part of ticks.index still to iterate
    ts,
    real_ts,
    window,             \* the window tick passed to the strategies
    price,
    signal,
    info,
    cfg,
    result

inputs  == <<close_tail, first_stamp, freq, start_date, end_date>>
globals == <<position_open, positions, buy_strategies, sell_strategies>>
locals  == <<df, calc_log, portfolio_value, committed_capital, entry_price,
             trades, ticks, ts, real_ts, window, price, signal, info, cfg,
             result>>
vars    == <<inputs, globals, pc, args, locals>>

\* ------------------------------------------------------- the price table
\* proc_df: rows 1..NRows, unique ascending timestamps, sorted
Rows      == 1..NRows
Close(i)  == IF i <= NRows - Active THEN BasePrice
             ELSE close_tail[i - (NRows - Active)]
Stamp(i)  == first_stamp + i - 1
Min(a, b) == IF a < b THEN a ELSE b
Max(a, b) == IF a > b THEN a ELSE b
\* the row of the latest bar of the table at or before t, 0 if there is none
RowAsof(t) == IF t < first_stamp THEN 0 ELSE Min(NRows, t - first_stamp + 1)

\* calculate_rsi_full: Wilder averages of gains and losses as <<A, L, D>>,
\* avg_gain = A / D and avg_loss = L / D (ewm, alpha = 1/period, adjust=False)
Gain(i) == IF i > 1 /\ Close(i) > Close(i - 1) THEN Close(i) - Close(i - 1) ELSE 0
Loss(i) == IF i > 1 /\ Close(i) < Close(i - 1) THEN Close(i - 1) - Close(i) ELSE 0

Norm3(t) ==
    LET g == GCD(GCD(t[1], t[2]), t[3])
    IN  <<t[1] \div g, t[2] \div g, t[3] \div g>>

\* no price change in rows 1..i: every gain and loss so far is 0
Flat(i) == \A j \in (NRows - Active + 1)..i : Close(j) = BasePrice

RECURSIVE Ewm(_, _)
Ewm(period, i) ==
    IF i = 1 \/ Flat(i) THEN <<0, 0, 1>>
    ELSE LET a == Ewm(period, i - 1)
         IN  Norm3(<<(period - 1) * a[1] + Gain(i) * a[3],
                     (period - 1) * a[2] + Loss(i) * a[3],
                     period * a[3]>>)

calculate_rsi_full(period, i) ==
    LET rsi(a) == IF a[1] + a[2] = 0 THEN NaN       \* rs = 0 / 0
                  ELSE Rat(100 * a[1], a[1] + a[2]) \* 100 - 100 / (1 + rs)
    IN  IF i < period THEN NaN                      \* min_periods = period
        ELSE rsi(Ewm(period, i))

\* calculate_sma_full: data['close'].rolling(window=period).mean()
RECURSIVE SumClose(_, _)
SumClose(from, to) ==
    IF from > to THEN 0 ELSE Close(to) + SumClose(from, to - 1)

calculate_sma_full(period, i) ==
    IF i < period THEN NaN ELSE Rat(SumClose(i - period + 1, i), period)

\* data['close'].ewm(span=span, adjust=False).mean(): alpha = 2 / (span + 1)
RECURSIVE Ema(_, _)
Ema(span, i) ==
    IF i = 1 \/ Flat(i) THEN Int2Rat(Close(i))
    ELSE RAdd(RMul(Rat(2, span + 1), Int2Rat(Close(i))),
              RMul(Rat(span - 1, span + 1), Ema(span, i - 1)))

\* calculate_macd_full: macd_line, signal_line and their difference
MacdLine(fast, slow, i) == RSub(Ema(fast, i), Ema(slow, i))

RECURSIVE SignalLine(_, _, _, _)
SignalLine(fast, slow, signal_period, i) ==
    IF i = 1 \/ Flat(i) THEN MacdLine(fast, slow, i)
    ELSE RAdd(RMul(Rat(2, signal_period + 1), MacdLine(fast, slow, i)),
              RMul(Rat(signal_period - 1, signal_period + 1),
                   SignalLine(fast, slow, signal_period, i - 1)))

calculate_macd_full(column, fast, slow, signal_period, i) ==
    IF column = "macd" THEN MacdLine(fast, slow, i)
    ELSE IF column = "macd_signal" THEN SignalLine(fast, slow, signal_period, i)
    ELSE RSub(MacdLine(fast, slow, i), SignalLine(fast, slow, signal_period, i))

\* data['close'].rolling(window=period).std(): the sample variance (ddof = 1)
\* of the closes of rows i-period+1..i; the deviation itself is its root
RECURSIVE SumSquares(_, _)
SumSquares(from, to) ==
    IF from > to THEN 0 ELSE Close(to) * Close(to) + SumSquares(from, to - 1)

RollVar(period, i) ==
    LET var(sum, squares) == Rat(period * squares - sum * sum,
                                 period * (period - 1))
    IN  IF i < period \/ period = 1 THEN NaN
        ELSE var(SumClose(i - period + 1, i), SumSquares(i - period + 1, i))

\* a band sma + side * num_std * std kept as [mid, width2, side] with
\* width2 = (num_std * std)^2, so that comparisons with a price are exact
Band(mid, num_std, variance, side) ==
    IF mid = NaN \/ variance = NaN THEN NaN
    ELSE [mid |-> mid, width2 |-> RMul(RMul(num_std, num_std), variance),
          side |-> side]

\* calculate_bollinger_bands_full
calculate_bollinger_bands_full(column, period, num_std, i) ==
    IF column = "bb_middle" THEN calculate_sma_full(period, i)
    ELSE Band(calculate_sma_full(period, i), num_std, RollVar(period, i),
              IF column = "bb_upper" THEN 1 ELSE -1)

\* price <= band and price >= band as Python floats compare (False on NaN)
BandLe(p, band) ==
    LET Le(t, w2) == IF band.side = 1
                     THEN RLe(t, Int2Rat(0)) \/ RLe(RMul(t, t), w2)
                     ELSE RLe(t, Int2Rat(0)) /\ RLe(w2, RMul(t, t))
    IN  band # NaN /\ Le(RSub(p, band.mid), band.width2)
BandGe(p, band) ==
    LET Ge(t, w2) == IF band.side = 1
                     THEN RLe(Int2Rat(0), t) /\ RLe(w2, RMul(t, t))
                     ELSE RLe(Int2Rat(0), t) \/ RLe(RMul(t, t), w2)
    IN  band # NaN /\ Ge(RSub(p, band.mid), band.width2)

\* calculate_adx_full on bars whose high and low equal the close: the
\* positive and negative directional moves are Gain and Loss, the true range
\* is their sum, and the rolling means of the range cancel in
\* dx = 100 * |pos_di - neg_di| / (pos_di + neg_di)
RECURSIVE SumGain(_, _)
SumGain(from, to) == IF from > to THEN 0 ELSE Gain(to) + SumGain(from, to - 1)
RECURSIVE SumLoss(_, _)
SumLoss(from, to) == IF from > to THEN 0 ELSE Loss(to) + SumLoss(from, to - 1)

Dx(period, i) ==
    LET dx(up, down) == IF up + down = 0 THEN NaN       \* 0 / 0
                        ELSE Rat(100 * Abs(up - down), up + down)
    IN  IF i < period THEN NaN
        ELSE dx(SumGain(i - period + 1, i), SumLoss(i - period + 1, i))

RECURSIVE SumDx(_, _, _)
SumDx(period, from, to) ==
    IF from > to THEN Int2Rat(0)
    ELSE RAdd(Dx(period, to), SumDx(period, from, to - 1))

\* dx.rolling(window=period).mean()
calculate_adx_full(period, i) ==
    IF i < period \/ \E j \in (i - period + 1)..i : Dx(period, j) = NaN THEN NaN
    ELSE RDiv(SumDx(period, i - period + 1, i), Int2Rat(period))

\* value of the column computed from `key` at row i
ColVal(key, i) ==
    IF key[1] = "close" THEN Int2Rat(Close(i))
    ELSE IF key[1] = "rsi" THEN calculate_rsi_full(key[2], i)
    ELSE IF key[1] = "sma" THEN calculate_sma_full(key[2], i)
    ELSE IF key[1] = "macd" THEN MacdLine(key[2], key[3], i)
    ELSE IF key[1] \in {"macd_signal", "macd_hist"}
    THEN calculate_macd_full(key[1], key[2], key[3], key[4], i)
    ELSE IF key[1] \in {"bb_upper", "bb_middle", "bb_lower"}
    THEN calculate_bollinger_bands_full(key[1], key[2], key[3], i)
    ELSE IF key[1] = "adx" THEN calculate_adx_full(key[2], i)
    ELSE NaN

\* ------------------------------------------------- strategy configurations
\* StrategyConfig.dict(): optional fields are None or Some(value)
Cfg(name, trade_percent, threshold, period) ==
    [name |-> name, trade_percent |-> trade_percent,
     threshold |-> threshold, period |-> period,
     fast_period |-> None, slow_period |-> None, signal_period |-> None,
     std_dev |-> None]

\* the indicator-family tokens that occur in a strategy name (`"rsi" in name`)
Tokens(name) ==
    CASE name = "rsi_oversold"   -> {"rsi"}
      [] name = "rsi_overbought" -> {"rsi"}
      [] name = "macd_buy"       -> {"macd"}
      [] name = "macd_sell"      -> {"macd"}
      [] name = "bb_lower_buy"   -> {"bb_"}
      [] name = "bb_upper_sell"  -> {"bb_"}
      [] name = "adx_strong_trend_buy"  -> {"adx"}
      [] name = "adx_strong_trend_sell" -> {"adx"}
      [] name = "sma_buy"        -> {"sma"}
      [] name = "sma_sell"       -> {"sma"}
      [] OTHER                   -> {}

\* ------------------------------------------------------ indicator resolver
\* a list in place of the set: append without the membership test
SetAdd_list(s, x) == Append(s, x)

\* set.add on a Python set, kept as a duplicate-free sequence
SetAdd(s, x) == IF \E k \in 1..Len(s) : s[k] = x THEN s ELSE Append(s, x)

\* the family branch a strategy name takes in the if/elif chain of
\* backtest_engine.py:95-121
Family(name) ==
    IF "rsi" \in Tokens(name) THEN "rsi"
    ELSE IF "macd" \in Tokens(name) THEN "macd"
    ELSE IF "sma" \in Tokens(name) THEN "sma"
    ELSE IF "bb_" \in Tokens(name) THEN "bb_"
    ELSE IF "adx" \in Tokens(name) THEN "adx"
    ELSE "none"

\* backtest_engine.py:80-121: the periods collected for one family
RECURSIVE Collect(_, _, _, _, _)
Collect(strategies, k, family, dflt, periods) ==
    IF k > Len(strategies) THEN periods
    ELSE Collect(strategies, k + 1, family, dflt,
            IF Family(strategies[k].name) = family
            THEN SetAdd(periods, Or(strategies[k].period, dflt))
            ELSE periods)

\* name of the column an RSI of `period` is written to (f'rsi_{period}')
RsiCol(period) ==
    IF period # RsiDefaultPeriod THEN <<"rsi", period>> ELSE <<"rsi">>

Put(cols, name, key) ==
    [n \in DOMAIN cols \cup {name} |-> IF n = name THEN key ELSE cols[n]]

\* backtest_engine.py:124-129
RECURSIVE WriteRsi(_, _, _)
WriteRsi(cols, rsi_periods, k) ==
    IF k > Len(rsi_periods) THEN cols
    ELSE WriteRsi(Put(cols, RsiCol(rsi_periods[k]), <<"rsi", rsi_periods[k]>>),
                  rsi_periods, k + 1)

\* backtest_engine.py:142-143 with calculate_sma_full (f'ma_{period}')
RECURSIVE WriteSma(_, _, _)
WriteSma(cols, sma_periods, k) ==
    IF k > Len(sma_periods) THEN cols
    ELSE WriteSma(Put(cols, <<"ma", sma_periods[k]>>, <<"sma", sma_periods[k]>>),
                  sma_periods, k + 1)

\* `std_dev or 2.0` on an optional float
OrF(o, dflt) == IF o # None /\ o[1][1] # 0 THEN o[1] ELSE dflt

\* backtest_engine.py:97-101: the (fast, slow, signal) triples collected
RECURSIVE CollectMacd(_, _, _)
CollectMacd(strategies, k, macd_configs) ==
    IF k > Len(strategies) THEN macd_configs
    ELSE CollectMacd(strategies, k + 1,
            IF Family(strategies[k].name) = "macd"
            THEN SetAdd(macd_configs,
                        <<Or(strategies[k].fast_period, MacdFastDefault),
                          Or(strategies[k].slow_period, MacdSlowDefault),
                          Or(strategies[k].signal_period, MacdSignalDefault)>>)
            ELSE macd_configs)

\* backtest_engine.py:107-108: the (period, std_dev) pairs collected
RECURSIVE CollectBb(_, _, _)
CollectBb(strategies, k, bb_configs) ==
    IF k > Len(strategies) THEN bb_configs
    ELSE CollectBb(strategies, k + 1,
            IF Family(strategies[k].name) = "bb_"
            THEN SetAdd(bb_configs,
                        <<Or(strategies[k].period, BbDefaultPeriod),
                          OrF(strategies[k].std_dev, BbDefaultStd)>>)
            ELSE bb_configs)

\* backtest_engine.py:131-140
RECURSIVE WriteMacd(_, _, _)
WriteMacd(cols, macd_configs, k) ==
    IF k > Len(macd_configs) THEN cols
    ELSE LET Three(fast, slow, signal_period) ==
                 IF <<fast, slow, signal_period>> #
                        <<MacdFastDefault, MacdSlowDefault, MacdSignalDefault>>
                 THEN Put(Put(Put(cols,
                        <<"macd", fast, slow>>, <<"macd", fast, slow>>),
                        <<"macd_signal", fast, slow, signal_period>>,
                            <<"macd_signal", fast, slow, signal_period>>),
                        <<"macd_hist", fast, slow, signal_period>>,
                            <<"macd_hist", fast, slow, signal_period>>)
                 ELSE Put(Put(Put(cols,
                        <<"macd">>, <<"macd", fast, slow>>),
                        <<"macd_signal">>, <<"macd_signal", fast, slow, signal_period>>),
                        <<"macd_hist">>, <<"macd_hist", fast, slow, signal_period>>)
         IN  WriteMacd(Three(macd_configs[k][1], macd_configs[k][2],
                             macd_configs[k][3]),
                       macd_configs, k + 1)

\* backtest_engine.py:151-152 with calculate_bollinger_bands_full, which
\* writes 'bb_upper', 'bb_middle' and 'bb_lower' whatever its parameters
RECURSIVE WriteBb(_, _, _)
WriteBb(cols, bb_configs, k) ==
    IF k > Len(bb_configs) THEN cols
    ELSE LET Three(period, num_std) ==
                 Put(Put(Put(cols,
                    <<"bb_upper">>, <<"bb_upper", period, num_std>>),
                    <<"bb_middle">>, <<"bb_middle", period, num_std>>),
                    <<"bb_lower">>, <<"bb_lower", period, num_std>>)
         IN  WriteBb(Three(bb_configs[k][1], bb_configs[k][2]),
                     bb_configs, k + 1)

\* backtest_engine.py:160-161 with calculate_adx_full, which writes 'adx'
RECURSIVE WriteAdx(_, _, _)
WriteAdx(cols, adx_periods, k) ==
    IF k > Len(adx_periods) THEN cols
    ELSE WriteAdx(Put(cols, <<"adx">>, <<"adx", adx_periods[k]>>),
                  adx_periods, k + 1)

\* the table's columns after resolution, and the calculations performed
\* (one logger.info line of calc_indicators_full.py each)
_calculate_required_indicators(cols, strategies) ==
    LET rsi_periods  == Collect(strategies, 1, "rsi", RsiDefaultPeriod, << >>)
        macd_configs == CollectMacd(strategies, 1, << >>)
        sma_periods  == Collect(strategies, 1, "sma", SmaDefaultPeriod, << >>)
        bb_configs   == CollectBb(strategies, 1, << >>)
        adx_periods  == Collect(strategies, 1, "adx", AdxDefaultPeriod, << >>)
    IN  [cols  |-> WriteAdx(
                     WriteBb(WriteSma(WriteMacd(WriteRsi(cols, rsi_periods, 1),
                                                macd_configs, 1),
                                      sma_periods, 1),
                             bb_configs, 1),
                     adx_periods, 1),
         calls |-> [k \in 1..Len(rsi_periods) |-> <<"rsi", rsi_periods[k]>>]
                   \o [k \in 1..Len(macd_configs) |->
                            <<"macd">> \o macd_configs[k]]
                   \o [k \in 1..Len(sma_periods) |-> <<"sma", sma_periods[k]>>]
                   \o [k \in 1..Len(bb_configs) |->
                            <<"bb">> \o bb_configs[k]]
                   \o [k \in 1..Len(adx_periods) |-> <<"adx", adx_periods[k]>>]]

\* --------------------------------------------------------- rule functions
\* a window is a table cut at row `last`: [cols, lo, last], rows lo..last
WinLen(w) == w.last - w.lo + 1
EmptyInfo == << >>
Ret(sig, inf) == [raised |-> FALSE, sig |-> sig, info |-> inf]
KeyError      == [raised |-> TRUE,  sig |-> FALSE, info |-> EmptyInfo]

\* backtest_engine.py:183-201
RsiRule(c, d, dflt, oversold) ==
    LET period  == c.period
        rsi_col == IF period = None \/ period[1] = RsiDefaultPeriod
                   THEN <<"rsi">> ELSE <<"rsi", period[1]>>
        col     == IF rsi_col \notin DOMAIN d.cols THEN <<"rsi">> ELSE rsi_col
        thresh  == Or(c.threshold, dflt)
        Decide(val) ==
            Ret(IF oversold THEN FLt(val, Int2Rat(thresh))
                            ELSE FGt(val, Int2Rat(thresh)),
                [strategy |-> c.name, value |-> val, threshold |-> thresh])
    IN  IF col \notin DOMAIN d.cols THEN KeyError
        ELSE Decide(ColVal(d.cols[col], d.last))

\* backtest_engine.py:231-253
SmaRule(c, d, buying) ==
    LET p   == Or(c.period, SmaDefaultPeriod)
        col == <<"ma", p>>
        Cross(p0, p1, m0, m1) ==
            Ret(IF buying THEN FLt(p0, m0) /\ FGt(p1, m1)
                          ELSE FGt(p0, m0) /\ FLt(p1, m1),
                [strategy |-> c.name, value |-> p1])
    IN  IF WinLen(d) < 2 \/ col \notin DOMAIN d.cols THEN Ret(FALSE, EmptyInfo)
        ELSE Cross(Int2Rat(Close(d.last - 1)), Int2Rat(Close(d.last)),
                   ColVal(d.cols[col], d.last - 1), ColVal(d.cols[col], d.last))

\* backtest_engine.py:203-229
MacdRule(c, d, buying) ==
    LET fast     == Or(c.fast_period, MacdFastDefault)
        slow     == Or(c.slow_period, MacdSlowDefault)
        hist_col == IF <<fast, slow>> = <<MacdFastDefault, MacdSlowDefault>>
                    THEN <<"macd_hist">>
                    ELSE <<"macd_hist", fast, slow,
                           Or(c.signal_period, MacdSignalDefault)>>
        col      == IF hist_col \notin DOMAIN d.cols THEN <<"macd_hist">>
                    ELSE hist_col
        Cross(prev, curr) ==
            Ret(IF buying THEN FLt(prev, Int2Rat(0)) /\ FGt(curr, Int2Rat(0))
                          ELSE FGt(prev, Int2Rat(0)) /\ FLt(curr, Int2Rat(0)),
                [strategy |-> c.name, value |-> curr])
    IN  IF WinLen(d) < 2 THEN Ret(FALSE, EmptyInfo)
        ELSE IF col \notin DOMAIN d.cols THEN KeyError   \* window[hist_col]
        ELSE Cross(ColVal(d.cols[col], d.last - 1), ColVal(d.cols[col], d.last))

\* backtest_engine.py:303-321
BbRule(c, d, lower) ==
    LET col == IF lower THEN <<"bb_lower">> ELSE <<"bb_upper">>
        Touch(band) ==
            Ret(IF lower THEN BandLe(Int2Rat(Close(d.last)), band)
                         ELSE BandGe(Int2Rat(Close(d.last)), band),
                [strategy |-> c.name, value |-> Int2Rat(Close(d.last)),
                 threshold |-> band])
    IN  IF col \notin DOMAIN d.cols \/ WinLen(d) < 1 THEN Ret(FALSE, EmptyInfo)
        ELSE Touch(ColVal(d.cols[col], d.last))

\* backtest_engine.py:356-364, one closure for the buy and the sell name
AdxRule(c, d) ==
    LET thresh == Or(c.threshold, AdxThreshDefault)
        Strong(adx_val) ==
            Ret(FGt(adx_val, Int2Rat(thresh)),
                [strategy |-> c.name, value |-> adx_val, threshold |-> thresh])
    IN  IF <<"adx">> \notin DOMAIN d.cols \/ WinLen(d) < 1
        THEN Ret(FALSE, EmptyInfo)
        ELSE Strong(ColVal(d.cols[<<"adx">>], d.last))

\* a fallback that fires on every window
Fallback_fires(c, d) == Ret(TRUE, [strategy |-> c.name])

\* backtest_engine.py:424-426, STRATEGY_MAP.get(name, lambda window: (False, {}))
\* for a name that is not a key of STRATEGY_MAP
Fallback(c, d) == Ret(FALSE, EmptyInfo)

\* the closure _create_strategy_function(c) applied to window d
strategy_func(c, d) ==
    IF c.name = "rsi_oversold" THEN RsiRule(c, d, OversoldDefault, TRUE)
    ELSE IF c.name = "rsi_overbought" THEN RsiRule(c, d, OverboughtDefault, FALSE)
    ELSE IF c.name = "sma_buy" THEN SmaRule(c, d, TRUE)
    ELSE IF c.name = "macd_buy" THEN MacdRule(c, d, TRUE)
    ELSE IF c.name = "macd_sell" THEN MacdRule(c, d, FALSE)
    ELSE IF c.name = "sma_sell" THEN SmaRule(c, d, FALSE)
    ELSE IF c.name = "bb_lower_buy" THEN BbRule(c, d, TRUE)
    ELSE IF c.name = "bb_upper_sell" THEN BbRule(c, d, FALSE)
    ELSE IF c.name \in {"adx_strong_trend_buy", "adx_strong_trend_sell"}
    THEN AdxRule(c, d)
    ELSE Fallback(c, d)

\* strategy/main.py:37-50, the functions the module-level lists start with
LegacyRule(name, d) ==
    IF name = "macd_buy" \/ name = "macd_sell"
    THEN IF WinLen(d) < 2 THEN Ret(FALSE, EmptyInfo) ELSE KeyError
    ELSE IF <<"rsi">> \notin DOMAIN d.cols THEN KeyError
    ELSE LET thresh == IF name = "rsi_oversold" THEN OversoldDefault
                       ELSE OverboughtDefault
             Decide(val) ==
                 Ret(IF name = "rsi_oversold" THEN FLt(val, Int2Rat(thresh))
                                              ELSE FGt(val, Int2Rat(thresh)),
                     [strategy |-> name, value |-> val, threshold |-> thresh])
         IN  Decide(ColVal(d.cols[<<"rsi">>], d.last))

\* an element of buy_strategies / sell_strategies applied to a window
Built(c)     == [legacy |-> FALSE, c |-> c]
Legacy(name) == [legacy |-> TRUE,  c |-> name]
Apply(strat, d) ==
    IF strat.legacy THEN LegacyRule(strat.c, d)
    ELSE strategy_func(strat.c, d)

\* ------------------------------------------------------------ tick scheduler
\* df[df.index >= start_date] / df[df.index <= end_date] on the sorted table
FilterLo(start) == IF start = None THEN 1 ELSE RowAsof(start[1] - 1) + 1
FilterHi(end)   == IF end = None THEN NRows ELSE RowAsof(end[1])

DfLen(d) == IF d.hi >= d.lo THEN d.hi - d.lo + 1 ELSE 0

\* the length check with <= in place of <
InsufficientData_inclusive(d) == DfLen(d) <= MinRows

\* backtest_engine.py:460
InsufficientData(d) == DfLen(d) < MinRows

\* the last row of the table before date filtering
LastRow_unfiltered(d) == NRows

\* backtest_engine.py:527 and 533: the last row of the filtered table
LastRow(d) == d.hi

\* backtest_engine.py:476-478
indicator_cols ==
    {<<"rsi">>, <<"macd">>, <<"macd_hist">>, <<"macd_signal">>,
     <<"bb_upper">>, <<"bb_middle">>, <<"bb_lower">>,
     <<"atr">>, <<"stoch_k">>, <<"stoch_d">>, <<"adx">>, <<"vwap">>,
     <<"obv">>, <<"psar">>}

required_cols(d) == {<<"close">>} \cup (indicator_cols \cap DOMAIN d.cols)

\* resample(freq): the bucket a timestamp falls in, labelled by its left edge
Label(t, f) == (t \div f) * f
Bucket(d, b, f) == Max(d.lo, RowAsof(b - 1) + 1)..Min(d.hi, RowAsof(b + f - 1))

\* .last().dropna(subset=required_cols): a bucket survives iff every required
\* column has a non-null value somewhere in it
Survives(d, b, f) ==
    \A col \in required_cols(d) :
        \E i \in Bucket(d, b, f) : ColVal(d.cols[col], i) # NaN

RECURSIVE TicksFrom(_, _, _)
TicksFrom(d, b, f) ==
    IF b > Label(Stamp(d.hi), f) THEN << >>
    ELSE IF Survives(d, b, f) THEN <<b>> \o TicksFrom(d, b + f, f)
    ELSE TicksFrom(d, b + f, f)

Schedule(d, f) == TicksFrom(d, Label(Stamp(d.lo), f), f)

\* a lookup that falls forward to the first bar when none is at or before t
AsofRow_forward(d, t) ==
    LET i == Min(d.hi, RowAsof(t))
    IN  IF i < d.lo THEN d.lo ELSE i

\* df.index.asof(t): the row of the latest bar at or before t, if any
AsofRow(d, t) ==
    LET i == Min(d.hi, RowAsof(t))
    IN  IF i < d.lo THEN 0 ELSE i
asof(d, t) == IF AsofRow(d, t) = 0 THEN NaT ELSE Some(Stamp(AsofRow(d, t)))

\* the window not cut at real_ts: the whole table
Window_whole(d, real) == [cols |-> d.cols, lo |-> d.lo, last |-> d.hi]

\* full_df.loc[:real_ts]
Window(d, real) == [cols |-> d.cols, lo |-> d.lo, last |-> Min(d.hi, RowAsof(real))]

\* ------------------------------------------------------- strategy/main.py
\* the loop without its early return: the last strategy that triggers wins
RECURSIVE FirstTrigger_last(_, _, _)
FirstTrigger_last(strats, k, w) ==
    IF k > Len(strats) THEN 0
    ELSE LET Pick(a, later) == IF later # 0 THEN later
                               ELSE IF a.raised \/ a.sig THEN k ELSE 0
         IN  Pick(Apply(strats[k], w), FirstTrigger_last(strats, k + 1, w))

\* the for loop of tick: index of the first strategy that triggers or raises
\* on the window, 0 if none does
RECURSIVE FirstTrigger(_, _, _)
FirstTrigger(strats, k, w) ==
    IF k > Len(strats) THEN 0
    ELSE LET Fired(a) == a.raised \/ a.sig
         IN  IF Fired(Apply(strats[k], w)) THEN k
             ELSE FirstTrigger(strats, k + 1, w)

\* the entry buy() and sell() write to positions
PositionEntry(action, p, inf) ==
    [action |-> action, price |-> p, strategy |-> inf.strategy,
     value |-> IF "value" \in DOMAIN inf THEN inf.value ELSE None,
     threshold |-> IF "threshold" \in DOMAIN inf THEN Some(inf.threshold) ELSE None]

\* buy() without line 20: the flag is never set
buy_forgets_flag(open, pos, timestamp, p, inf) ==
    [position_open |-> open,
     positions |-> IF open THEN pos
                   ELSE Put(pos, timestamp, PositionEntry("buy", p, inf))]

\* strategy/main.py:9-20
buy(open, pos, timestamp, p, inf) ==
    IF open THEN [position_open |-> open, positions |-> pos]
    ELSE [position_open |-> TRUE,
          positions |-> Put(pos, timestamp, PositionEntry("buy", p, inf))]

\* strategy/main.py:23-34
sell(open, pos, timestamp, p, inf) ==
    IF ~open THEN [position_open |-> open, positions |-> pos]
    ELSE [position_open |-> FALSE,
          positions |-> Put(pos, timestamp, PositionEntry("sell", p, inf))]

\* a hold that flips the position flag
Hold_flips(w, open, pos, raised) ==
    [raised |-> raised, signal |-> 0, info |-> EmptyInfo, window |-> w,
     position_open |-> ~open, positions |-> pos]

\* strategy/main.py:256, return 0, {}: no call of buy() or sell()
Hold(w, open, pos, raised) ==
    [raised |-> raised, signal |-> 0, info |-> EmptyInfo, window |-> w,
     position_open |-> open, positions |-> pos]

\* tick(full_df, ts) for a timestamp with a bar at or before it: the returned
\* signal and info, the window the strategies saw and the module state left
tick(d, t, open, pos, buys, sells) ==
    LET strats == IF ~open THEN buys ELSE sells
        Quiet(w, raised) == Hold(w, open, pos, raised)
        Traded(w, inf, after) ==
            [raised |-> FALSE, signal |-> IF ~open THEN 1 ELSE -1,
             info |-> inf, window |-> w,
             position_open |-> after.position_open,
             positions |-> after.positions]
        Act(w, real, hit) ==
            IF hit.raised THEN Quiet(w, TRUE)
            ELSE Traded(w, hit.info,
                   IF ~open THEN buy(open, pos, real, Close(w.last), hit.info)
                            ELSE sell(open, pos, real, Close(w.last), hit.info))
        Loop(w, real, k) ==
            IF k = 0 THEN Quiet(w, FALSE) ELSE Act(w, real, Apply(strats[k], w))
        Cut(w, real) == Loop(w, real, FirstTrigger(strats, 1, w))
        At(real) == Cut(Window(d, real), real)
    IN  At(asof(d, t)[1])

\* ------------------------------------------------------------------ inputs
StartValue == 1000
Half       == <<1, 2>>
NineTenths == <<9, 10>>
Whole      == <<1, 1>>
Fine       == <<1, 800>>     \* trade_percent 0.00125

BuyMenu ==
    { <<Cfg("rsi_oversold", Whole, Some(30), None),
        Cfg("rsi_oversold", NineTenths, Some(60), None)>>,
      <<Cfg("noop", Half, None, None),
        Cfg("rsi_oversold", Half, Some(30), Some(21)),
        Cfg("sma_buy", NineTenths, None, None)>> }

SellMenu ==
    { << >>,
      <<Cfg("rsi_overbought", Half, Some(70), Some(21)),
        Cfg("rsi_overbought", Half, Some(40), None)>> }

\* the requests the thread pool serves side by side
ConcBuyMenu ==
    { <<Cfg("rsi_oversold", NineTenths, Some(60), None)>>,
      <<Cfg("rsi_overbought", Half, Some(40), None)>> }

ConcSellMenu ==
    { <<Cfg("rsi_overbought", Half, Some(40), None)>> }

\* requests with MACD and Bollinger rules: a MACD buy with the default spans
\* and signal_period 5, a Bollinger buy with the default band, a MACD pair
\* with spans 1 and 3 and signal_period 3, a Bollinger sell on a band of
\* period 10 and width 1.0, an ADX pair of period 1, an RSI sell with
\* threshold 0
WideBuyMenu ==
    { <<[Cfg("macd_buy", Half, None, None) EXCEPT !.signal_period = Some(5)]>>,
      <<Cfg("bb_lower_buy", Fine, None, None)>>,
      <<[Cfg("macd_buy", NineTenths, None, None) EXCEPT
            !.fast_period = Some(1), !.slow_period = Some(3),
            !.signal_period = Some(3)]>>,
      <<Cfg("adx_strong_trend_buy", Half, None, Some(1))>> }

WideSellMenu ==
    { <<[Cfg("bb_upper_sell", Half, None, Some(10)) EXCEPT
            !.std_dev = Some(<<1, 1>>)]>>,
      <<[Cfg("macd_sell", Half, None, None) EXCEPT
            !.fast_period = Some(1), !.slow_period = Some(3),
            !.signal_period = Some(3)]>>,
      <<Cfg("adx_strong_trend_sell", Half, None, Some(1)),
        Cfg("rsi_overbought", Half, Some(0), None)>> }

\* date ranges: everything, all but the last bar, and a range one bar short
\* of MinRows
DateRanges ==
    { <<None, None>>,
      <<None, Some(Stamp(NRows - 1))>>,
      <<Some(Stamp(NRows - MinRows + 1)), Some(Stamp(NRows - 1))>> }

Init ==
    /\ close_tail \in [1..Active -> 1..MaxPrice]
    /\ freq \in 1..MaxFreq
    \* a bucket label depends on the timestamps modulo freq only
    /\ first_stamp \in 0..Min(MaxFirst, freq - 1)
    /\ \E dr \in DateRanges : start_date = dr[1] /\ end_date = dr[2]
    /\ position_open = FALSE
    /\ positions = << >>
    /\ buy_strategies  = <<Legacy("rsi_oversold"), Legacy("macd_buy")>>
    /\ sell_strategies = <<Legacy("rsi_overbought"), Legacy("macd_sell")>>
    /\ pc = [r \in Runs |-> "idle"]
    /\ args = [r \in Runs |-> None]
    /\ df = [r \in Runs |-> None]
    /\ calc_log = [r \in Runs |-> << >>]
    /\ window = [r \in Runs |-> None]
    /\ portfolio_value = [r \in Runs |-> None]
    /\ committed_capital = [r \in Runs |-> None]
    /\ entry_price = [r \in Runs |-> None]
    /\ trades = [r \in Runs |-> << >>]
    /\ ticks = [r \in Runs |-> << >>]
    /\ ts = [r \in Runs |-> NaT]
    /\ real_ts = [r \in Runs |-> NaT]
    /\ price = [r \in Runs |-> None]
    /\ signal = [r \in Runs |-> 0]
    /\ info = [r \in Runs |-> EmptyInfo]
    /\ cfg = [r \in Runs |-> None]
    /\ result = [r \in Runs |-> None]

\* ------------------------------------------------------------ run_backtest
Finished(r) == pc[r] \in {"done", "raised"}

\* backtest_engine.py:440-461: load, resolve, filter, length check
Load(r, buy_menu, sell_menu) ==
    /\ pc[r] = "idle"
    /\ \E b \in buy_menu, s \in sell_menu :
        LET a   == [starting_value |-> Int2Rat(StartValue),
                    buy_strats |-> b, sell_strats |-> s]
            res == _calculate_required_indicators(
                       (<<"close">> :> <<"close">>), b \o s)
            d   == [lo |-> FilterLo(start_date), hi |-> FilterHi(end_date),
                    cols |-> res.cols]
        IN  /\ args' = [args EXCEPT ![r] = a]
            /\ df' = [df EXCEPT ![r] = d]
            /\ calc_log' = [calc_log EXCEPT ![r] = res.calls]
            /\ IF InsufficientData(d)
               THEN /\ pc' = [pc EXCEPT ![r] = "raised"]
                    /\ result' = [result EXCEPT ![r] =
                          [error |-> "ValueError", records |-> DfLen(d)]]
               ELSE /\ pc' = [pc EXCEPT ![r] = "build_buy"]
                    /\ UNCHANGED result
    /\ UNCHANGED <<inputs, globals, portfolio_value, committed_capital,
                   entry_price, trades, ticks, ts, real_ts, window, price,
                   signal, info, cfg>>

\* one run at a time, in the order of the run numbers
StartSeq(r) ==
    /\ \A q \in Runs : q < r => Finished(q)
    /\ \A q \in Runs : q > r => pc[q] = "idle"
    /\ Load(r, BuyMenu, SellMenu)

\* one run at a time, with the MACD and Bollinger requests
StartWide(r) ==
    /\ \A q \in Runs : q < r => Finished(q)
    /\ \A q \in Runs : q > r => pc[q] = "idle"
    /\ Load(r, WideBuyMenu, WideSellMenu)

\* a request served by the thread pool starts whenever it arrives
StartConc(r) == Load(r, ConcBuyMenu, ConcSellMenu)

\* backtest_engine.py:464
BuildBuy(r) ==
    /\ pc[r] = "build_buy"
    /\ buy_strategies' =
          [k \in 1..Len(args[r].buy_strats) |-> Built(args[r].buy_strats[k])]
    /\ pc' = [pc EXCEPT ![r] = "build_sell"]
    /\ UNCHANGED <<inputs, position_open, positions, sell_strategies, args, locals>>

\* backtest_engine.py:465-489
BuildSell(r) ==
    /\ pc[r] = "build_sell"
    /\ sell_strategies' =
          [k \in 1..Len(args[r].sell_strats) |-> Built(args[r].sell_strats[k])]
    /\ portfolio_value' = [portfolio_value EXCEPT ![r] = args[r].starting_value]
    /\ committed_capital' = [committed_capital EXCEPT ![r] = Int2Rat(0)]
    /\ entry_price' = [entry_price EXCEPT ![r] = None]
    /\ trades' = [trades EXCEPT ![r] = << >>]
    /\ ticks' = [ticks EXCEPT ![r] = Schedule(df[r], freq)]
    /\ pc' = [pc EXCEPT ![r] = "loop"]
    /\ UNCHANGED <<inputs, position_open, positions, buy_strategies, args, df,
                   calc_log, ts, real_ts, window, price, signal, info, cfg,
                   result>>

\* backtest_engine.py:492-498: the next timestamp of ticks.index and the call
\* of tick
Tick(r) ==
    /\ pc[r] = "loop"
    /\ ticks[r] # << >>
    /\ ticks' = [ticks EXCEPT ![r] = Tail(ticks[r])]
    /\ ts' = [ts EXCEPT ![r] = Some(Head(ticks[r]))]
    /\ real_ts' = [real_ts EXCEPT ![r] = asof(df[r], Head(ticks[r]))]
    /\ IF AsofRow(df[r], Head(ticks[r])) = 0
       THEN \* pd.isna(real_ts): continue
            UNCHANGED <<globals, pc, window, price, signal, info, result>>
       ELSE \E t \in {tick(df[r], Head(ticks[r]), position_open, positions,
                            buy_strategies, sell_strategies)} :
                /\ price' = [price EXCEPT ![r] =
                      Some(Close(AsofRow(df[r], Head(ticks[r]))))]
                /\ position_open' = t.position_open
                /\ positions' = t.positions
                /\ window' = [window EXCEPT ![r] = t.window]
                /\ signal' = [signal EXCEPT ![r] = t.signal]
                /\ info' = [info EXCEPT ![r] = t.info]
                /\ IF t.raised
                   THEN /\ pc' = [pc EXCEPT ![r] = "raised"]
                        /\ result' = [result EXCEPT ![r] = [error |-> "KeyError"]]
                   ELSE \* signal 0 falls through both branches of lines 500-523
                        /\ pc' = [pc EXCEPT ![r] =
                              IF t.signal = 0 THEN "loop" ELSE "trade"]
                        /\ UNCHANGED result
                /\ UNCHANGED <<buy_strategies, sell_strategies>>
    /\ UNCHANGED <<inputs, args, df, calc_log, portfolio_value,
                   committed_capital, entry_price, trades, cfg>>

\* next(filter(lambda c: c["name"] == info["strategy"], buy_strats))
Lookup(strats, name) ==
    LET S == {k \in 1..Len(strats) : strats[k].name = name}
    IN  IF S = {} THEN None
        ELSE Some(strats[CHOOSE k \in S : \A j \in S : k <= j])

TradeRecord(action, p, stamp) ==
    [action |-> action, price |-> p, timestamp |-> stamp]

\* a record put in front of the list
Log_front(log, rec) == <<rec>> \o log

\* trades.append(...), backtest_engine.py:507, 518 and 529
Log(log, rec) == Append(log, rec)

\* the return taken relative to the exit price
Profit_over_exit(committed, exit, entry) ==
    RDiv(RMul(committed, Int2Rat(exit - entry)), Int2Rat(exit))

\* committed_capital * (exit - entry_price) / entry_price
Profit(committed, exit, entry) ==
    RDiv(RMul(committed, Int2Rat(exit - entry)), Int2Rat(entry))

\* the capital test with < in place of <=
Affordable_strict(amount, value, committed) ==
    RLt(amount, RSub(value, committed))

\* backtest_engine.py:504: amount <= (portfolio_value - committed_capital)
Affordable(amount, value, committed) ==
    RLe(amount, RSub(value, committed))

\* the sell that leaves the committed capital in place
Release_keeps(committed) == committed

\* backtest_engine.py:517: committed_capital -= committed_capital
Release(committed) == RSub(committed, committed)

\* backtest_engine.py:500-523
Trade(r) ==
    /\ pc[r] = "trade"
    /\ IF signal[r] = 1 THEN
          LET c == Lookup(args[r].buy_strats, info[r].strategy)
          IN  IF c = None THEN                        \* StopIteration
                  /\ pc' = [pc EXCEPT ![r] = "raised"]
                  /\ result' = [result EXCEPT ![r] = [error |-> "StopIteration"]]
                  /\ UNCHANGED <<portfolio_value, committed_capital,
                                 entry_price, trades, cfg>>
              ELSE LET amount == RMul(portfolio_value[r], c[1].trade_percent)
                   IN  /\ cfg' = [cfg EXCEPT ![r] = c]
                       /\ pc' = [pc EXCEPT ![r] = "loop"]
                       /\ IF Affordable(amount, portfolio_value[r], committed_capital[r])
                          THEN /\ committed_capital' = [committed_capital EXCEPT
                                     ![r] = RAdd(committed_capital[r], amount)]
                               /\ entry_price' = [entry_price EXCEPT ![r] = price[r]]
                               /\ trades' = [trades EXCEPT ![r] = Log(trades[r],
                                     TradeRecord("buy", price[r][1], real_ts[r][1]))]
                          ELSE UNCHANGED <<committed_capital, entry_price, trades>>
                       /\ UNCHANGED <<portfolio_value, result>>
       ELSE IF signal[r] = -1 /\ entry_price[r] # None THEN
          /\ portfolio_value' = [portfolio_value EXCEPT ![r] =
                RAdd(portfolio_value[r],
                     Profit(committed_capital[r], price[r][1], entry_price[r][1]))]
          /\ committed_capital' = [committed_capital EXCEPT ![r] =
                Release(committed_capital[r])]
          /\ trades' = [trades EXCEPT ![r] = Log(trades[r],
                TradeRecord("sell", price[r][1], real_ts[r][1]))]
          /\ entry_price' = [entry_price EXCEPT ![r] = None]
          /\ pc' = [pc EXCEPT ![r] = "loop"]
          /\ UNCHANGED <<cfg, result>>
       ELSE
          /\ pc' = [pc EXCEPT ![r] = "loop"]
          /\ UNCHANGED <<portfolio_value, committed_capital, entry_price,
                         trades, cfg, result>>
    /\ UNCHANGED <<inputs, globals, args, df, calc_log, ticks, ts, real_ts,
                   window, price, signal, info>>

\* round(x, 2): the nearest multiple of 0.01, ties to the even one
Round2(x) ==
    LET Pick(q, twice) ==
            Rat(IF twice > x[2] \/ (twice = x[2] /\ q % 2 = 1) THEN q + 1 ELSE q,
                100)
    IN  Pick((x[1] * 100) \div x[2], 2 * ((x[1] * 100) % x[2]))

\* backtest_engine.py:525-542: forced close and return; line 537 binds
\* final_value = round(portfolio_value, 2), a name the return does not use
Finish(r) ==
    /\ pc[r] = "loop"
    /\ ticks[r] = << >>
    /\ LET last_price == Close(LastRow(df[r]))
           closing    == entry_price[r] # None
           value      == IF closing
                         THEN RAdd(portfolio_value[r],
                                   Profit(committed_capital[r], last_price,
                                          entry_price[r][1]))
                         ELSE portfolio_value[r]
           log        == IF closing
                         THEN Log(trades[r],
                                 TradeRecord("sell", last_price, Stamp(LastRow(df[r]))))
                         ELSE trades[r]
       IN  /\ portfolio_value' = [portfolio_value EXCEPT ![r] = value]
           /\ trades' = [trades EXCEPT ![r] = log]
           /\ result' = [result EXCEPT ![r] =
                 [starting_value |-> args[r].starting_value,
                  final_value |-> value, trades |-> log]]
    /\ pc' = [pc EXCEPT ![r] = "done"]
    /\ UNCHANGED <<inputs, globals, args, df, calc_log, committed_capital,
                   entry_price, ticks, ts, real_ts, window, price, signal,
                   info, cfg>>

\* ---------------------------------------------------------- specifications
Next ==
    \E r \in Runs :
        \/ StartSeq(r)
        \/ BuildBuy(r)
        \/ BuildSell(r)
        \/ Tick(r)
        \/ Trade(r)
        \/ Finish(r)

Spec == Init /\ [][Next]_vars

NextConc ==
    \E r \in Runs :
        \/ StartConc(r)
        \/ BuildBuy(r)
        \/ BuildSell(r)
        \/ Tick(r)
        \/ Trade(r)
        \/ Finish(r)

InitConc == Init /\ freq = 1 /\ start_date = None /\ end_date = None

SpecConc == InitConc /\ [][NextConc]_vars

NextWide ==
    \E r \in Runs :
        \/ StartWide(r)
        \/ BuildBuy(r)
        \/ BuildSell(r)
        \/ Tick(r)
        \/ Trade(r)
        \/ Finish(r)

SpecWide == Init /\ [][NextWide]_vars

\* ------------------------------------------------------------ properties
Started(r) == pc[r] \in {"loop", "trade", "done"}

\* the rows of data.csv inside the requested date range
InRange(i) ==
    /\ start_date = None \/ Stamp(i) >= start_date[1]
    /\ end_date = None \/ Stamp(i) <= end_date[1]
RangeRows == {i \in Rows : InRange(i)}
RangeLast == CHOOSE i \in RangeRows : \A j \in RangeRows : j <= i

\* buys minus sells among the first n records of a trade list
RECURSIVE Balance(_, _)
Balance(log, n) ==
    IF n = 0 THEN 0
    ELSE Balance(log, n - 1) + (IF log[n].action = "buy" THEN 1 ELSE -1)

C2_NoLookahead ==
    [][\A r \in Runs :
        (pc[r] = "loop" /\ ticks'[r] # ticks[r] /\ real_ts'[r] # NaT) =>
            LET real == real_ts'[r][1]
                bars == {Stamp(i) : i \in df[r].lo..df[r].hi}
            IN  /\ real \in bars /\ real <= ts'[r][1]
                /\ \A b \in bars : b <= ts'[r][1] => b <= real
                /\ window'[r].lo..window'[r].last =
                      {i \in df[r].lo..df[r].hi : Stamp(i) <= real}]_vars

\* a rule triggered on a window that hides later bars of the table
C2_Witness ==
    \E r \in Runs : pc[r] = "trade" /\ window[r].last < df[r].hi

\* C3: when the position is still open after the last tick, the returned
\* trade list ends with a sell at the close and timestamp of the last row of
\* the date-filtered table, and portfolio_value has gained
\* committed_capital * (last_close - entry_price) / entry_price.
C3_TerminalClosure ==
    [][\A r \in Runs :
        (pc[r] = "loop" /\ pc'[r] = "done" /\ entry_price[r] # None) =>
            LET last_close == Close(RangeLast)
                gain == RDiv(RMul(committed_capital[r],
                                  Int2Rat(last_close - entry_price[r][1])),
                             Int2Rat(entry_price[r][1]))
            IN  /\ result'[r].trades = Append(trades[r],
                      [action |-> "sell", price |-> last_close,
                       timestamp |-> Stamp(RangeLast)])
                /\ portfolio_value'[r] = RAdd(portfolio_value[r], gain)
                /\ result'[r].final_value = portfolio_value'[r]]_vars

\* a forced close on a table whose last bar was cut off by end_date
C3_Witness ==
    \E r \in Runs :
        /\ pc[r] = "done" /\ entry_price[r] # None
        /\ end_date # None /\ Close(NRows) # Close(NRows - 1)

\* C4: committed_capital <= portfolio_value in every state of a run, after
\* every tick and after the forced close.
C4_CapitalBound ==
    \A r \in Runs :
        Started(r) => RLe(committed_capital[r], portfolio_value[r])

\* the rules of list L that trigger on window w
Hits(L, w) == {k \in 1..Len(L) : strategy_func(L[k], w).sig}
Least(S)   == CHOOSE k \in S : \A j \in S : k <= j

\* C5: when a tick signals a trade, the evidence it returns, and the entry
\* it records in positions, is that of the first rule of the configured list
\* (buy rules for a buy, sell rules for a sell) that triggers on the window.
C5_DeclarationOrder ==
    \A r \in Runs :
        pc[r] = "trade" =>
            LET L == IF signal[r] = 1 THEN args[r].buy_strats
                     ELSE args[r].sell_strats
                H == Hits(L, window[r])
                e == strategy_func(L[Least(H)], window[r]).info
                rec == positions[real_ts[r][1]]
            IN  /\ H # {}
                /\ info[r] = e
                /\ rec.action = (IF signal[r] = 1 THEN "buy" ELSE "sell")
                /\ rec.strategy = e.strategy
                /\ rec.value = e.value
                /\ "threshold" \in DOMAIN e => rec.threshold = Some(e.threshold)

\* a buy on a bar where two buy rules with different evidence trigger
C5_Witness ==
    \E r \in Runs :
        /\ pc[r] = "trade" /\ signal[r] = 1
        /\ \E j, k \in Hits(args[r].buy_strats, window[r]) :
              /\ j < k
              /\ strategy_func(args[r].buy_strats[j], window[r]).info
                   # strategy_func(args[r].buy_strats[k], window[r]).info

Buys(log) == {n \in 1..Len(log) : log[n].action = "buy"}

\* C6: a run with exactly one accepted buy, at close a with trade_percent p,
\* closed at close b, returns final_value = starting_value * (1 + p*(b-a)/a);
\* with p = 1 and starting_value = 1000 that is 1000 * b / a.
C6_RoundTripValue ==
    \A r \in Runs :
        (pc[r] = "done" /\ Cardinality(Buys(result[r].trades)) = 1) =>
            LET log == result[r].trades
                a   == log[1].price
                b   == log[2].price
                p   == cfg[r][1].trade_percent
                sv  == result[r].starting_value
            IN  /\ Len(log) = 2
                /\ log[1].action = "buy" /\ log[2].action = "sell"
                /\ result[r].final_value =
                      RMul(sv, RAdd(Int2Rat(1),
                                    RDiv(RMul(p, Int2Rat(b - a)), Int2Rat(a))))
                /\ (p = Whole /\ sv = Int2Rat(1000)) =>
                      result[r].final_value = Rat(1000 * b, a)

\* one buy with all of the capital, closed at another price
C6_Witness ==
    \E r \in Runs :
        /\ pc[r] = "done" /\ Cardinality(Buys(result[r].trades)) = 1
        /\ cfg[r][1].trade_percent = Whole
        /\ result[r].trades[1].price # result[r].trades[2].price

\* C7: with fewer than 50 rows in the date range the run raises the
\* insufficient-data error carrying the row count, before it builds a rule,
\* schedules a tick or emits a trade, and nothing happens afterwards; with 50
\* rows or more it does not raise it.
C7_InsufficientData ==
    [][\A r \in Runs :
        /\ (pc[r] = "idle" /\ pc'[r] # "idle") =>
              IF Cardinality(RangeRows) < MinRows
              THEN /\ pc'[r] = "raised"
                   /\ result'[r] = [error |-> "ValueError",
                                    records |-> Cardinality(RangeRows)]
                   /\ UNCHANGED <<buy_strategies, sell_strategies,
                                  position_open, positions>>
                   /\ trades'[r] = << >> /\ ticks'[r] = << >>
              ELSE pc'[r] # "raised"
        /\ pc[r] = "raised" =>
              /\ pc'[r] = "raised"
              /\ trades'[r] = trades[r] /\ ticks'[r] = ticks[r]]_vars

\* a run rejected with one row too few
C7_Witness ==
    \E r \in Runs :
        /\ pc[r] = "raised" /\ result[r].error = "ValueError"
        /\ result[r].records = MinRows - 1

\* the (family, parameters) pair a strategy asks the resolver for
Wanted(c) ==
    <<Family(c.name),
      Or(c.period, IF Family(c.name) = "rsi" THEN RsiDefaultPeriod
                   ELSE SmaDefaultPeriod)>>

\* C8: when a run has resolved its indicators, applying the resolver again to
\* the table it produced, with the same strategy list, leaves the columns as
\* they are, and every requested (family, parameters) pair was computed
\* exactly once.
C8_IdempotentResolution ==
    [][\A r \in Runs :
        (pc[r] = "idle" /\ pc'[r] # "idle") =>
            LET strategies == args'[r].buy_strats \o args'[r].sell_strats
                again == _calculate_required_indicators(df'[r].cols, strategies)
            IN  /\ again.cols = df'[r].cols
                /\ \A k \in 1..Len(strategies) :
                      Family(strategies[k].name) # "none" =>
                          Cardinality({n \in 1..Len(calc_log'[r]) :
                              calc_log'[r][n] = Wanted(strategies[k])}) = 1]_vars

\* a resolved table for a list in which two strategies ask for the same
\* indicator with the same parameters
C8_Witness ==
    \E r \in Runs :
        /\ df[r] # None
        /\ LET strategies == args[r].buy_strats \o args[r].sell_strats
           IN  \E j, k \in 1..Len(strategies) :
                  /\ j < k
                  /\ Family(strategies[j].name) # "none"
                  /\ Wanted(strategies[j]) = Wanted(strategies[k])

\* C9: the result of a run depends only on its arguments and the price data:
\* two runs of one process with the same arguments return the same result.
C9_NoStateLeak ==
    \A r1, r2 \in Runs :
        (Finished(r1) /\ Finished(r2) /\ args[r1] = args[r2]) =>
            result[r1] = result[r2]

\* C10: with interleaved runs, a tick of a run signals only on one of that
\* run's own rules, and the driver always finds the triggering rule's
\* configuration.
C10_Isolated ==
    \A r \in Runs :
        /\ pc[r] = "raised" => result[r].error # "StopIteration"
        /\ pc[r] = "trade" =>
              LET L == IF signal[r] = 1 THEN args[r].buy_strats
                       ELSE args[r].sell_strats
              IN  \E k \in Hits(L, window[r]) :
                      info[r] = strategy_func(L[k], window[r]).info

\* the bar a tick at ts[r] decides on: the latest bar of the date range at or
\* before ts[r]
DecisionBar(r) ==
    CHOOSE i \in RangeRows :
        /\ Stamp(i) <= ts[r][1]
        /\ \A j \in RangeRows : Stamp(j) <= ts[r][1] => j <= i

\* C11: a triggered buy is accepted iff portfolio_value * trade_percent <=
\* portfolio_value - committed_capital; an accepted buy adds exactly that
\* amount to committed_capital, sets entry_price to the close of the decision
\* bar, appends one buy record with that price and the bar's timestamp and
\* leaves portfolio_value alone; a rejected one changes none of the four.
C11_AcceptedBuy ==
    [][\A r \in Runs :
        (pc[r] = "trade" /\ pc'[r] = "loop" /\ signal[r] = 1) =>
            LET p      == Lookup(args[r].buy_strats, info[r].strategy)[1].trade_percent
                amount == RMul(portfolio_value[r], p)
                bar    == DecisionBar(r)
            IN  IF RLe(RAdd(committed_capital[r], amount), portfolio_value[r])
                THEN /\ committed_capital'[r] = RAdd(committed_capital[r], amount)
                     /\ entry_price'[r] = Some(Close(bar))
                     /\ trades'[r] = Append(trades[r],
                           [action |-> "buy", price |-> Close(bar),
                            timestamp |-> Stamp(bar)])
                     /\ portfolio_value'[r] = portfolio_value[r]
                ELSE /\ committed_capital'[r] = committed_capital[r]
                     /\ entry_price'[r] = entry_price[r]
                     /\ trades'[r] = trades[r]
                     /\ portfolio_value'[r] = portfolio_value[r]]_vars

\* a buy signal that left no record behind: the driver rejected it
C11_Witness ==
    \E r \in Runs :
        /\ pc[r] = "loop" /\ signal[r] = 1 /\ trades[r] # << >>
        /\ real_ts[r] # NaT
        /\ trades[r][Len(trades[r])].action = "buy"
        /\ trades[r][Len(trades[r])].timestamp < real_ts[r][1]

\* C12: an accepted sell at exit price x adds committed_capital * (x -
\* entry_price) / entry_price, taken from the values before the sell, to
\* portfolio_value, zeroes committed_capital, clears entry_price and appends
\* one sell record with price x and the decision bar's timestamp.
C12_AcceptedSell ==
    [][\A r \in Runs :
        (pc[r] = "trade" /\ pc'[r] = "loop" /\ signal[r] = -1
            /\ entry_price[r] # None) =>
            LET bar  == DecisionBar(r)
                x    == Close(bar)
                gain == RDiv(RMul(committed_capital[r],
                                  Int2Rat(x - entry_price[r][1])),
                             Int2Rat(entry_price[r][1]))
            IN  /\ portfolio_value'[r] = RAdd(portfolio_value[r], gain)
                /\ committed_capital'[r] = Int2Rat(0)
                /\ entry_price'[r] = None
                /\ trades'[r] = Append(trades[r],
                      [action |-> "sell", price |-> x, timestamp |-> Stamp(bar)])]_vars

\* a rule-driven sell at a price other than the entry price
C12_Witness ==
    \E r \in Runs :
        /\ pc[r] = "loop" /\ signal[r] = -1 /\ Len(trades[r]) >= 2
        /\ trades[r][Len(trades[r])].action = "sell"
        /\ trades[r][Len(trades[r])].price # trades[r][Len(trades[r]) - 1].price
        /\ portfolio_value[r] # args[r].starting_value

\* C13: a tick whose buy signal the driver goes on to reject (the amount
\* exceeds the uncommitted capital) leaves the position flag as it was before
\* the tick, so that the following tick evaluates buy rules again.
C13_RejectedBuy ==
    [][\A r \in Runs :
        (/\ pc[r] = "loop" /\ pc'[r] = "trade" /\ signal'[r] = 1
         /\ Lookup(args[r].buy_strats, info'[r].strategy) # None
         /\ ~RLe(RAdd(committed_capital[r],
                      RMul(portfolio_value[r],
                           Lookup(args[r].buy_strats,
                                  info'[r].strategy)[1].trade_percent)),
                 portfolio_value[r]))
        => position_open' = position_open]_vars

\* C14: a tick evaluates buy rules only while the run's ledger is flat
\* (entry_price unset, committed_capital 0) and sell rules only while it is
\* long (entry_price set).  tick evaluates the sell rules iff position_open,
\* and the buy rules otherwise (strategy/main.py:243-256).
C14_RuleGating ==
    [][\A r \in Runs :
        (pc[r] = "loop" /\ ticks'[r] # ticks[r] /\ real_ts'[r] # NaT) =>
            IF position_open
            THEN sell_strategies # << >> => entry_price[r] # None
            ELSE buy_strategies # << >> =>
                    entry_price[r] = None /\ committed_capital[r] = Int2Rat(0)]_vars

\* C15: between the ticks of a run, committed_capital > 0, the position flag
\* and "entry_price is set" are all true or all false.
C15_Consistent ==
    \A r \in Runs :
        pc[r] = "loop" =>
            /\ RLt(Int2Rat(0), committed_capital[r]) <=> position_open
            /\ position_open <=> entry_price[r] # None

\* C16: when a run has returned, committed_capital is 0, entry_price is
\* cleared, the position flag is false and the returned trade list has as many
\* sells as buys.
C16_EndsFlat ==
    \A r \in Runs :
        pc[r] = "done" =>
            /\ committed_capital[r] = Int2Rat(0)
            /\ entry_price[r] = None
            /\ ~position_open
            /\ Balance(result[r].trades, Len(result[r].trades)) = 0

\* the configurations of a list whose name belongs to a rule family
RECURSIVE Known(_)
Known(L) ==
    IF L = << >> THEN << >>
    ELSE IF Family(Head(L).name) = "none" THEN Known(Tail(L))
    ELSE <<Head(L)>> \o Known(Tail(L))

\* C17: a configuration whose name matches no rule family makes the resolver
\* add no column and perform no calculation, its rule returns (false, empty
\* evidence) on every window of the run's table, no signal ever carries its
\* name, and the run does not fail (it fails only for lack of data).
C17_UnknownIsNoop ==
    \A r \in Runs :
        args[r] # None =>
            LET L    == args[r].buy_strats \o args[r].sell_strats
                base == (<<"close">> :> <<"close">>)
            IN  /\ df[r].cols = _calculate_required_indicators(base, Known(L)).cols
                /\ calc_log[r] = _calculate_required_indicators(base, Known(L)).calls
                /\ \A k \in 1..Len(L) :
                      Family(L[k].name) = "none" =>
                        /\ _calculate_required_indicators(base, <<L[k]>>) =
                              [cols |-> base, calls |-> << >>]
                        /\ \A i \in df[r].lo..df[r].hi :
                              strategy_func(L[k], [cols |-> df[r].cols,
                                                   lo |-> df[r].lo, last |-> i])
                                = Ret(FALSE, EmptyInfo)
                        /\ info[r] # EmptyInfo => info[r].strategy # L[k].name
                /\ pc[r] = "raised" => InsufficientData(df[r])

\* a finished run that traded although its buy list holds an unknown name
C17_Witness ==
    \E r \in Runs :
        /\ pc[r] = "done"
        /\ \E k \in 1..Len(args[r].buy_strats) :
              Family(args[r].buy_strats[k].name) = "none"
        /\ result[r].trades # << >>

\* C18: on the table the resolver prepared for a strategy list, no rule of
\* the list raises on any window, whole or one row long, ending at any row,
\* and no run ends with an error other than the length check's.
C18_NeverRaises ==
    [][\A r \in Runs :
        /\ (pc[r] = "idle" /\ pc'[r] # "idle") =>
              LET L == args'[r].buy_strats \o args'[r].sell_strats
              IN  \A k \in 1..Len(L) :
                    \A i \in df'[r].lo..df'[r].hi :
                      \A lo \in {df'[r].lo, i} :
                        ~strategy_func(L[k], [cols |-> df'[r].cols,
                                              lo |-> lo, last |-> i]).raised
        /\ pc'[r] = "raised" => result'[r].error = "ValueError"]_vars

\* the series a configuration asks the resolver for
Series(c) ==
    LET bb(period, num_std) == {<<"bb_upper", period, num_std>>,
                                <<"bb_middle", period, num_std>>,
                                <<"bb_lower", period, num_std>>}
        macd(fast, slow, signal_period) ==
            {<<"macd", fast, slow>>,
             <<"macd_signal", fast, slow, signal_period>>,
             <<"macd_hist", fast, slow, signal_period>>}
    IN  CASE Family(c.name) = "rsi" -> {<<"rsi", Or(c.period, RsiDefaultPeriod)>>}
          [] Family(c.name) = "sma" -> {<<"sma", Or(c.period, SmaDefaultPeriod)>>}
          [] Family(c.name) = "macd" ->
                macd(Or(c.fast_period, MacdFastDefault),
                     Or(c.slow_period, MacdSlowDefault),
                     Or(c.signal_period, MacdSignalDefault))
          [] Family(c.name) = "bb_" ->
                bb(Or(c.period, BbDefaultPeriod), OrF(c.std_dev, BbDefaultStd))
          [] OTHER -> {}

Reverse(L) == [k \in 1..Len(L) |-> L[Len(L) + 1 - k]]

\* C19: after resolution every series requested by a configuration of the
\* strategy list is held by a column of the table, so two parameterizations
\* of one family never share a column, and the columns do not depend on the
\* order in which the configurations are processed.
C19_OwnColumns ==
    \A r \in Runs :
        df[r] # None =>
            LET L == args[r].buy_strats \o args[r].sell_strats
            IN  /\ \A k \in 1..Len(L) :
                      \A key \in Series(L[k]) :
                        \E n \in DOMAIN df[r].cols : df[r].cols[n] = key
                /\ _calculate_required_indicators(
                       (<<"close">> :> <<"close">>), Reverse(L)).cols
                     = df[r].cols

\* C20: at every decision point a rule was evaluated at, the close and every
\* indicator column the resolver added for the run's strategies has a
\* defined value at the bar the window ends with.
C20_WarmUp ==
    [][\A r \in Runs :
        (pc[r] = "loop" /\ ticks'[r] # ticks[r] /\ real_ts'[r] # NaT
            /\ buy_strategies \o sell_strategies # << >>) =>
            \A n \in DOMAIN window'[r].cols :
                ColVal(window'[r].cols[n], window'[r].last) # NaN]_vars

\* the bars of a run's filtered table at or before t
BarsUpTo(d, t) == {i \in d.lo..d.hi : Stamp(i) <= t}
Latest(S) == CHOOSE i \in S : \A j \in S : j <= i

C22_Rounded ==
    \A r \in Runs :
        pc[r] = "done" =>
            /\ result[r].final_value = Round2(portfolio_value[r])
            /\ result[r].starting_value = Round2(args[r].starting_value)

\* C23: on every accepted buy the committed amount is portfolio_value times
\* the trade_percent of the buy configuration whose rule triggered, i.e. the
\* first configuration of the list whose rule fires on the window.
C23_Originating ==
    [][\A r \in Runs :
        (/\ pc[r] = "trade" /\ signal[r] = 1
         /\ Len(trades'[r]) > Len(trades[r])
         /\ Hits(args[r].buy_strats, window[r]) # {}) =>
            committed_capital'[r] =
                RAdd(committed_capital[r],
                     RMul(portfolio_value[r],
                          args[r].buy_strats[
                              Least(Hits(args[r].buy_strats, window[r]))
                          ].trade_percent))]_vars

\* C24: a step of a run never removes or changes a trade record already in
\* the list, it only appends, and the timestamps of the returned trade list
\* never decrease from one record to the next, the forced final sell
\* included.
C24_AppendOnly ==
    [][\A r \in Runs :
        /\ pc[r] \in {"loop", "trade"} =>
              /\ Len(trades'[r]) >= Len(trades[r])
              /\ SubSeq(trades'[r], 1, Len(trades[r])) = trades[r]
        /\ (pc[r] = "loop" /\ pc'[r] = "done") =>
              /\ result'[r].trades = trades'[r]
              /\ \A j, k \in 1..Len(trades'[r]) :
                    j < k => trades'[r][j].timestamp <= trades'[r][k].timestamp]_vars

\* a returned list of at least three records that ends with the forced sell
C24_Witness ==
    \E r \in Runs :
        /\ pc[r] = "done"
        /\ entry_price[r] # None
        /\ Len(result[r].trades) >= 3
        /\ result[r].trades[Len(result[r].trades)].action = "sell"
        /\ result[r].trades[Len(result[r].trades)].timestamp >
              result[r].trades[1].timestamp

\* the rules a tick evaluates: the buy list while the flag is down, the sell
\* list while it is up
Evaluated == IF position_open THEN sell_strategies ELSE buy_strategies

\* C25: a tick at which none of the evaluated rules triggers returns signal 0
\* and leaves portfolio_value, committed_capital, entry_price, the position
\* flag, the positions and the trade list as they were; the call of tick
\* itself appends no trade and the driver's branch after it at most one.
C25_Hold ==
    [][\A r \in Runs :
        /\ (/\ pc[r] = "loop" /\ ticks'[r] # ticks[r] /\ real_ts'[r] # NaT
            /\ \A k \in 1..Len(Evaluated) :
                  \A a \in {Apply(Evaluated[k], window'[r])} :
                      ~a.sig /\ ~a.raised) =>
              /\ signal'[r] = 0 /\ info'[r] = EmptyInfo /\ pc'[r] = "loop"
              /\ UNCHANGED <<portfolio_value, committed_capital, entry_price,
                             position_open, positions, trades>>
        /\ (pc[r] = "loop" /\ ticks'[r] # ticks[r]) => trades'[r] = trades[r]
        /\ pc[r] = "trade" =>
              /\ Len(trades'[r]) <= Len(trades[r]) + 1
              /\ pc'[r] \in {"loop", "raised"}]_vars

\* a run that holds a position and has just held at a tick whose sell rules
\* were evaluated
C25_Witness ==
    \E r \in Runs :
        /\ pc[r] = "loop"
        /\ real_ts[r] # NaT
        /\ signal[r] = 0
        /\ entry_price[r] # None
        /\ position_open
        /\ sell_strategies # << >>
        /\ sell_strategies =
              [k \in 1..Len(args[r].sell_strats) |-> Built(args[r].sell_strats[k])]

\* C26: on every window of two or more rows of the resolved table, the rule
\* built for adx_strong_trend_buy triggers iff the last ADX value is above
\* the threshold and the last close is above the one before, and the rule
\* built for adx_strong_trend_sell iff the ADX is above the threshold and the
\* last close is below the one before.
C26_AdxDirection ==
    [][\A r \in Runs :
        (pc[r] = "idle" /\ pc'[r] # "idle") =>
            LET L == args'[r].buy_strats \o args'[r].sell_strats
            IN  \A k \in 1..Len(L) :
                  Family(L[k].name) = "adx" =>
                    \A i \in (df'[r].lo + 1)..df'[r].hi :
                      strategy_func(L[k], [cols |-> df'[r].cols,
                                           lo |-> df'[r].lo, last |-> i]).sig
                      <=> /\ FGt(ColVal(df'[r].cols[<<"adx">>], i),
                                 Int2Rat(Or(L[k].threshold, AdxThreshDefault)))
                          /\ IF L[k].name = "adx_strong_trend_buy"
                             THEN Close(i) > Close(i - 1)
                             ELSE Close(i) < Close(i - 1)]_vars

\* the threshold an RSI configuration asks for
Configured(c) ==
    IF c.threshold # None THEN c.threshold[1]
    ELSE IF c.name = "rsi_oversold" THEN OversoldDefault ELSE OverboughtDefault

\* C27: on every window of the resolved table an rsi_oversold rule triggers
\* iff the last RSI value is strictly below the configured threshold and an
\* rsi_overbought rule iff it is strictly above it, threshold 0 included; the
\* evidence of a defined value records that threshold; 20 and 80 are used
\* only when no threshold is configured.
C27_Threshold ==
    [][\A r \in Runs :
        (pc[r] = "idle" /\ pc'[r] # "idle") =>
            LET L == args'[r].buy_strats \o args'[r].sell_strats
            IN  \A k \in 1..Len(L) :
                  L[k].name \in {"rsi_oversold", "rsi_overbought"} =>
                    \A i \in df'[r].lo..df'[r].hi :
                      \A a \in {strategy_func(L[k], [cols |-> df'[r].cols,
                                       lo |-> df'[r].lo, last |-> i])} :
                        /\ ~a.raised
                        /\ a.info.threshold = Configured(L[k])
                        /\ a.sig <=>
                             IF L[k].name = "rsi_oversold"
                             THEN FLt(a.info.value, Int2Rat(Configured(L[k])))
                             ELSE FGt(a.info.value, Int2Rat(Configured(L[k])))]_vars

\* the column the rule built for c reads from a table with columns cols
\* (backtest_engine.py:185-187, 209-211, 236, 305-308, 315-318, 358-360)
ReadCol(c, cols) ==
    LET rsi_col  == IF c.period = None \/ c.period[1] = RsiDefaultPeriod
                    THEN <<"rsi">> ELSE <<"rsi", c.period[1]>>
        hist_col == IF <<Or(c.fast_period, MacdFastDefault),
                         Or(c.slow_period, MacdSlowDefault)>>
                        = <<MacdFastDefault, MacdSlowDefault>>
                    THEN <<"macd_hist">>
                    ELSE <<"macd_hist", Or(c.fast_period, MacdFastDefault),
                           Or(c.slow_period, MacdSlowDefault),
                           Or(c.signal_period, MacdSignalDefault)>>
    IN  CASE Family(c.name) = "rsi" ->
                IF rsi_col \notin DOMAIN cols THEN <<"rsi">> ELSE rsi_col
          [] Family(c.name) = "macd" ->
                IF hist_col \notin DOMAIN cols THEN <<"macd_hist">> ELSE hist_col
          [] Family(c.name) = "sma" -> <<"ma", Or(c.period, SmaDefaultPeriod)>>
          [] c.name = "bb_lower_buy" -> <<"bb_lower">>
          [] c.name = "bb_upper_sell" -> <<"bb_upper">>
          [] Family(c.name) = "adx" -> <<"adx">>

\* the series the configuration's own parameters define for its rule
OwnSeries(c) ==
    CASE Family(c.name) = "rsi" -> <<"rsi", Or(c.period, RsiDefaultPeriod)>>
      [] Family(c.name) = "macd" ->
            <<"macd_hist", Or(c.fast_period, MacdFastDefault),
              Or(c.slow_period, MacdSlowDefault),
              Or(c.signal_period, MacdSignalDefault)>>
      [] Family(c.name) = "sma" -> <<"sma", Or(c.period, SmaDefaultPeriod)>>
      [] c.name = "bb_lower_buy" ->
            <<"bb_lower", Or(c.period, BbDefaultPeriod),
              OrF(c.std_dev, BbDefaultStd)>>
      [] c.name = "bb_upper_sell" ->
            <<"bb_upper", Or(c.period, BbDefaultPeriod),
              OrF(c.std_dev, BbDefaultStd)>>
      [] Family(c.name) = "adx" -> <<"adx", Or(c.period, AdxDefaultPeriod)>>

\* C28: for every configuration of a run that belongs to a rule family, the
\* column its rule reads exists in the resolved table and holds the series
\* computed with that configuration's own parameters.
C28_OwnParameters ==
    \A r \in Runs :
        df[r] # None =>
            LET L == args[r].buy_strats \o args[r].sell_strats
            IN  \A k \in 1..Len(L) :
                  Family(L[k].name) # "none" =>
                    /\ ReadCol(L[k], df[r].cols) \in DOMAIN df[r].cols
                    /\ df[r].cols[ReadCol(L[k], df[r].cols)] = OwnSeries(L[k])

\* C29: portfolio_value is strictly positive in every state of a run,
\* committed_capital is 0 whenever tick has returned a buy signal for a rule
\* of the run's buy list, and the driver accepts every such buy (it appends
\* the buy record).
C29_NeverRejected ==
    [][\A r \in Runs :
        /\ portfolio_value'[r] # None =>
              RLt(Int2Rat(0), portfolio_value'[r])
        /\ (/\ pc[r] = "trade" /\ pc'[r] # "trade" /\ signal[r] = 1
            /\ Lookup(args[r].buy_strats, info[r].strategy) # None) =>
              /\ committed_capital[r] = Int2Rat(0)
              /\ Len(trades'[r]) = Len(trades[r]) + 1
              /\ trades'[r][Len(trades'[r])].action = "buy"]_vars

\* the two position trackers agree for run r once a tick and the driver's
\* branch after it are done, and the last signal left its record
InStep(r) ==
    pc[r] = "loop" =>
        /\ position_open <=> entry_price[r] # None
        /\ (signal[r] # 0 /\ real_ts[r] # NaT) =>
              /\ trades[r] # << >>
              /\ trades[r][Len(trades[r])] =
                    TradeRecord(IF signal[r] = 1 THEN "buy" ELSE "sell",
                                price[r][1], real_ts[r][1])

\* the trackers of run r are in step at its position: no position before
\* the first tick, InStep at the head of the loop, and between tick and the
\* driver's branch the flag already moved by the signal tick returned
Sync(r) ==
    /\ pc[r] \in {"build_buy", "build_sell"} =>
          ~position_open /\ entry_price[r] = None
    /\ InStep(r)
    /\ pc[r] = "trade" =>
          /\ signal[r] = 1 => position_open /\ entry_price[r] = None
          /\ signal[r] = -1 => ~position_open /\ entry_price[r] # None

\* C30: a run that starts while position_open is False keeps, after every
\* tick, position_open true exactly when its entry_price is set, and every
\* signal 1 has left a buy record and every signal -1 a sell record: once
\* the trackers of a run under way are in step, no step puts them out of step.
C30_InStep ==
    [][\A r \in Runs :
        (/\ pc[r] \in {"build_buy", "build_sell", "loop", "trade"}
         /\ Sync(r)
         /\ pc'[r] \in {"loop", "trade"}) => Sync(r)']_vars

====
